---- MODULE Spec2Model ----
(***************************************************************************)
(* VCS - a simple version control system (init / checkin / checkout /     *)
(* list / rollback).  The model follows main.c: every command is one      *)
(* process that opens the repository (load_metadata), runs one engine     *)
(* operation and exits.  Text is modelled as sequences of one-character   *)
(* strings, a file of text as the sequence of its lines (each line keeps  *)
(* its terminating newline, as fgets returns it), file content as a       *)
(* sequence of byte values.                                                *)
(***************************************************************************)
EXTENDS Integers, Sequences, FiniteSets, TLC

\* ------------------------------------------------------------------ bounds
MaxCheckins == 3    \* successful check-ins (rollback's included) in one run
MaxLines == 3       \* lines of a versions.meta that was not written by save_metadata
MaxTime == 1        \* the wall clock runs from 0 to MaxTime

\* ------------------------------------------------------- program constants
MAX_FILENAME_LEN == 256
MAX_COMMENT_LEN == 512
MAX_HASH_LEN == 64
HASH_SEED == 5381
HASH_TIME_MOD == 10000

\* -------------------------------------------------------------------- text
NL == "\n"
BAR == "|"
SLASH == "/"

Digits == <<"0", "1", "2", "3", "4", "5", "6", "7", "8", "9">>
HexDigits == <<"0", "1", "2", "3", "4", "5", "6", "7", "8", "9", "a", "b", "c", "d", "e", "f">>

IsDigit(c) == \E i \in 1..10 : Digits[i] = c
DigitVal(c) == (CHOOSE i \in 1..10 : Digits[i] = c) - 1

\* printf("%d") / printf("%ld") of a non-negative number
RECURSIVE DecNat(_)
DecNat(n) == IF n < 10 THEN <<Digits[n + 1]>> ELSE DecNat(n \div 10) \o <<Digits[(n % 10) + 1]>>

\* printf("%d") / printf("%ld")
Dec(n) == IF n < 0 THEN <<"-">> \o DecNat(-n) ELSE DecNat(n)

\* printf("%lx")
RECURSIVE HexNat(_)
HexNat(n) == IF n < 16 THEN <<HexDigits[n + 1]>> ELSE HexNat(n \div 16) \o <<HexDigits[(n % 16) + 1]>>

\* printf("%08lx"): at least eight digits, padded with zeros on the left
RECURSIVE PadZero(_, _)
PadZero(s, w) == IF Len(s) >= w THEN s ELSE PadZero(<<"0">> \o s, w)

\* the value of the run of digits of s that starts at position i, continuing from acc
RECURSIVE DigitsValue(_, _, _)
DigitsValue(s, i, acc) ==
    IF i > Len(s) \/ ~IsDigit(s[i]) THEN acc
    ELSE DigitsValue(s, i + 1, acc * 10 + DigitVal(s[i]))

\* atoi / atol: optional sign, then the leading digits; 0 when there are none
Atoi(s) ==
    IF s = <<>> THEN 0
    ELSE IF s[1] = "-" THEN 0 - DigitsValue(s, 2, 0)
    ELSE IF s[1] = "+" THEN DigitsValue(s, 2, 0)
    ELSE DigitsValue(s, 1, 0)

\* strncmp(s, key, strlen(key)) == 0
HasPrefix(s, key) == Len(s) >= Len(key) /\ SubSeq(s, 1, Len(key)) = key

\* s + n
Skip(s, n) == SubSeq(s, n + 1, Len(s))

\* strncpy(dst, s, max - 1); dst[max - 1] = '\0'
Strncpy(s, max) == IF Len(s) > max - 1 THEN SubSeq(s, 1, max - 1) ELSE s

\* strchr from position i: the first position >= i that holds c, Len(s) + 1 when none does
RECURSIVE FirstAt(_, _, _)
FirstAt(s, c, i) ==
    IF i > Len(s) THEN Len(s) + 1 ELSE IF s[i] = c THEN i ELSE FirstAt(s, c, i + 1)

\* the successive results of strtok(s, "|"), strtok(NULL, "|"), ... reading from
\* position i: leading delimiters are skipped, a token runs up to the next '|'
RECURSIVE StrtokFrom(_, _)
StrtokFrom(s, i) ==
    IF i > Len(s) THEN <<>>
    ELSE IF s[i] = BAR THEN StrtokFrom(s, i + 1)
    ELSE LET end == FirstAt(s, BAR, i)
         IN  <<SubSeq(s, i, end - 1)>> \o StrtokFrom(s, end + 1)

Strtok(s) == StrtokFrom(s, 1)

\* the text up to the first newline: char* newline = strchr(s, '\n'); *newline = '\0'
CutAtNewline(s) == SubSeq(s, 1, FirstAt(s, NL, 1) - 1)

\* strrchr(s, '/'): the position of the last '/', 0 when there is none
LastSlash(s) ==
    IF \E i \in 1..Len(s) : s[i] = SLASH
    THEN CHOOSE i \in 1..Len(s) : s[i] = SLASH /\ \A j \in (i + 1)..Len(s) : s[j] # SLASH
    ELSE 0

\* ------------------------------------------------------------------- paths
VCS_DIR == <<".", "v", "c", "s">>
VERSIONS_DIR == VCS_DIR \o <<"/", "v", "e", "r", "s", "i", "o", "n", "s">>
TEMP_DIR == VCS_DIR \o <<"/", "t", "e", "m", "p">>

\* the directory part of a path (the empty path is the working directory)
Parent(path) == IF LastSlash(path) = 0 THEN <<>> ELSE SubSeq(path, 1, LastSlash(path) - 1)

\* stat(path) == 0: a regular file or a directory of that name exists
file_exists(fs, dirs, path) == path \in DOMAIN fs \/ path \in dirs

\* fopen(path, "rb")
CanRead(fs, path) == path \in DOMAIN fs

\* fopen(path, "wb"): the directory holding path exists and path is no directory
CanWrite(fs, dirs, path) == path # <<>> /\ path \notin dirs /\ (Parent(path) = <<>> \/ Parent(path) \in dirs)

\* --------------------------------------------------------- metadata format
K_FILE == <<"F", "I", "L", "E", "=">>
K_VERSION == <<"V", "E", "R", "S", "I", "O", "N", "=">>
K_TIMESTAMP == <<"T", "I", "M", "E", "S", "T", "A", "M", "P", "=">>
K_SIZE == <<"S", "I", "Z", "E", "=">>
K_HASH == <<"H", "A", "S", "H", "=">>
K_COMMENT == <<"C", "O", "M", "M", "E", "N", "T", "=">>
K_TOTAL == <<"T", "O", "T", "A", "L", "_", "V", "E", "R", "S", "I", "O", "N", "S", "=">>
HEADER_LINE == <<"#", " ", "V", "C", "S", " ", "M", "e", "t", "a", "d", "a", "t", "a", " ", "F", "i", "l", "e", "\n">>
SECTION_LINE == <<"#", " ", "F", "i", "l", "e", " ", "V", "e", "r", "s", "i", "o", "n", "s", "\n">>
UNKNOWN_HASH == <<"u", "n", "k", "n", "o", "w", "n">>
DEFAULT_COMMENT == <<"N", "o", " ", "c", "o", "m", "m", "e", "n", "t", " ", "p", "r", "o", "v", "i", "d", "e", "d">>
ROLLBACK_PREFIX == <<"R", "o", "l", "l", "b", "a", "c", "k", " ", "t", "o", " ", "v", "e", "r", "s", "i", "o", "n", " ">>

\* fprintf(file, "FILE=%s|VERSION=%d|TIMESTAMP=%ld|SIZE=%ld|HASH=%s|COMMENT=%s\n", ...)
RecordLine(v) ==
    K_FILE \o v.filename \o <<BAR>> \o K_VERSION \o Dec(v.version_number) \o <<BAR>>
      \o K_TIMESTAMP \o Dec(v.timestamp) \o <<BAR>> \o K_SIZE \o Dec(v.file_size) \o <<BAR>>
      \o K_HASH \o v.hash \o <<BAR>> \o K_COMMENT \o v.comment \o <<NL>>

\* the lines fgets returns for a text: each runs up to its newline, which it keeps
RECURSIVE SplitLines(_)
SplitLines(text) ==
    IF text = <<>> THEN <<>>
    ELSE LET end == FirstAt(text, NL, 1)
         IN  IF end >= Len(text) THEN <<text>>
             ELSE <<SubSeq(text, 1, end)>> \o SplitLines(Skip(text, end))

\* the lines the records of the list are written as, from its head on; a record
\* whose name or comment holds a newline makes more than one line
RECURSIVE RecordLines(_)
RecordLines(list) ==
    IF list = <<>> THEN <<>>
    ELSE SplitLines(RecordLine(Head(list))) \o RecordLines(Tail(list))

\* the text save_metadata writes: the header, the counter, a blank line, the
\* section comment, then the records from the head of the list on
MetadataText(repo) ==
    <<HEADER_LINE, K_TOTAL \o Dec(repo.total_versions) \o <<NL>>, <<NL>>, SECTION_LINE>>
      \o RecordLines(repo.version_list)

\* the FileVersion load_metadata builds from one FILE= line; g is the content of
\* the memory malloc returned, which a field keeps when its token is missing or
\* does not carry its key
ParseRecord(line, g) ==
    LET tok == Strtok(Skip(line, Len(K_FILE)))
        has(i, key) == Len(tok) >= i /\ HasPrefix(tok[i], key)
        val(i, key) == Skip(tok[i], Len(key))
    IN  [filename |-> IF Len(tok) >= 1 THEN Strncpy(tok[1], MAX_FILENAME_LEN) ELSE g.filename,
         version_number |-> IF has(2, K_VERSION) THEN Atoi(val(2, K_VERSION)) ELSE g.version_number,
         timestamp |-> IF has(3, K_TIMESTAMP) THEN Atoi(val(3, K_TIMESTAMP)) ELSE g.timestamp,
         file_size |-> IF has(4, K_SIZE) THEN Atoi(val(4, K_SIZE)) ELSE g.file_size,
         hash |-> IF has(5, K_HASH) THEN Strncpy(val(5, K_HASH), MAX_HASH_LEN) ELSE g.hash,
         comment |-> IF has(6, K_COMMENT)
                     THEN CutAtNewline(Strncpy(val(6, K_COMMENT), MAX_COMMENT_LEN))
                     ELSE g.comment]

\* a loop over the lines that gives up at the first line it does not know
RECURSIVE LoadLinesUntilUnknown(_, _, _, _)
LoadLinesUntilUnknown(lines, repo, g, allocOk) ==
    IF lines = <<>> THEN repo
    ELSE LET line == Head(lines)
         IN  IF line[1] = "#" \/ line[1] = NL
             THEN LoadLinesUntilUnknown(Tail(lines), repo, g, allocOk)
             ELSE IF HasPrefix(line, K_TOTAL)
             THEN LoadLinesUntilUnknown(Tail(lines),
                      [repo EXCEPT !.total_versions = Atoi(Skip(line, Len(K_TOTAL)))], g, allocOk)
             ELSE IF HasPrefix(line, K_FILE)
             THEN LoadLinesUntilUnknown(Tail(lines),
                      IF allocOk
                      THEN [repo EXCEPT !.version_list = <<ParseRecord(line, g)>> \o @]
                      ELSE repo, g, allocOk)
             ELSE repo

\* the loop of load_metadata over the lines fgets returns, in file order; a
\* FILE= line whose malloc fails is skipped (continue)
RECURSIVE LoadLines(_, _, _, _)
LoadLines(lines, repo, g, allocOk) ==
    IF lines = <<>> THEN repo
    ELSE LET line == Head(lines)
             next == IF line[1] = "#" \/ line[1] = NL THEN repo
                     ELSE IF HasPrefix(line, K_TOTAL)
                          THEN [repo EXCEPT !.total_versions = Atoi(Skip(line, Len(K_TOTAL)))]
                     ELSE IF HasPrefix(line, K_FILE)
                          THEN (IF allocOk
                                THEN [repo EXCEPT !.version_list = <<ParseRecord(line, g)>> \o @]
                                ELSE repo)
                     ELSE repo
         IN  LoadLines(Tail(lines), next, g, allocOk)

\* -------------------------------------------------------------- repository
\* load_repository's fresh Repository: total_versions = 0, version_list = NULL
EmptyRepo == [total_versions |-> 0, version_list |-> <<>>]

\* load_metadata: meta is the set holding the text of versions.meta, empty when
\* the file cannot be opened (return 0 with the repository as it is)
load_metadata(repo, meta, g, fail) ==
    IF meta = {} THEN repo
    ELSE LoadLines(CHOOSE text \in meta : TRUE, repo, g, "malloc_load" \notin fail)

\* load_repository: the set holding the Repository, empty for NULL
load_repository(meta, g, fail) ==
    IF "malloc_repo" \in fail THEN {}
    ELSE {load_metadata(EmptyRepo, meta, g, fail)}

\* a save_metadata that keeps what versions.meta holds and adds the line of the
\* head record
save_metadata_appending(repo, meta, fail) ==
    IF "meta_open" \in fail THEN meta
    ELSE IF meta = {} \/ repo.version_list = <<>> THEN {MetadataText(repo)}
    ELSE {(CHOOSE text \in meta : TRUE) \o <<RecordLine(Head(repo.version_list))>>}

\* save_metadata: the new state of versions.meta; fopen(.., "w") failing leaves
\* the file as it was
save_metadata(repo, meta, fail) ==
    IF "meta_open" \in fail THEN meta ELSE {MetadataText(repo)}

\* a save that writes a new file aside and puts it in place when it is whole:
\* killed before that, versions.meta is as it was
save_metadata_staged(repo, meta, k) == meta

\* save_metadata killed after fopen(.., "w") has emptied versions.meta and k of
\* its lines have reached the file
save_metadata_killed(repo, meta, k) == {SubSeq(MetadataText(repo), 1, k)}

\* find_file_version: the first record from the head with that name and number
\* (the set holding it, empty for NULL)
find_file_version(repo, filename, version) ==
    LET hits == {i \in 1..Len(repo.version_list) :
                    /\ repo.version_list[i].filename = filename
                    /\ repo.version_list[i].version_number = version}
    IN  IF hits = {} THEN {}
        ELSE {repo.version_list[CHOOSE i \in hits : \A j \in hits : i <= j]}

\* a get_latest_version that stops at the first record of the file from the head
latest_is_first_match(repo, filename) ==
    LET hits == {i \in 1..Len(repo.version_list) : repo.version_list[i].filename = filename}
    IN  IF hits = {} THEN 0
        ELSE repo.version_list[CHOOSE i \in hits : \A j \in hits : i <= j].version_number

\* get_latest_version: the loop from latest = 0 over the list
RECURSIVE LatestFrom(_, _, _)
LatestFrom(list, filename, latest) ==
    IF list = <<>> THEN latest
    ELSE LatestFrom(Tail(list), filename,
                    IF Head(list).filename = filename /\ Head(list).version_number > latest
                    THEN Head(list).version_number ELSE latest)

get_latest_version(repo, filename) == LatestFrom(repo.version_list, filename, 0)

\* ----------------------------------------------------------------- fileops
\* the djb2 loop: hash = ((hash << 5) + hash) + c for every byte
RECURSIVE Djb2(_, _)
Djb2(bytes, hash) ==
    IF bytes = <<>> THEN hash ELSE Djb2(Tail(bytes), hash * 33 + Head(bytes))

\* a generate_file_hash that leaves the time out: the hash of the content alone
generate_file_hash_of_content(fs, filepath, t, fail) ==
    IF ~CanRead(fs, filepath) \/ "hash_open" \in fail THEN {}
    ELSE LET hash == Djb2(fs[filepath], HASH_SEED) * 33 + Len(fs[filepath])
         IN  {Strncpy(PadZero(HexNat(hash), 8), MAX_HASH_LEN)}

\* generate_file_hash: the set holding the hash string, empty for NULL.  The
\* accumulator is an unsigned long; the contents of the model are short enough
\* that it never wraps.
generate_file_hash(fs, filepath, t, fail) ==
    IF ~CanRead(fs, filepath) \/ "hash_open" \in fail THEN {}
    ELSE LET hash == Djb2(fs[filepath], HASH_SEED) * 33 + Len(fs[filepath])
         IN  {Strncpy(PadZero(HexNat(hash), 8) \o Dec(t % HASH_TIME_MOD), MAX_HASH_LEN)}

\* a copy_file that does not look at fopen(source)'s result: with no source to
\* read it leaves an empty dest and reports success
copy_file_unchecked_source(fs, dirs, source, dest) ==
    IF ~CanWrite(fs, dirs, dest) THEN [ret |-> -1, fs |-> fs]
    ELSE [ret |-> 0,
          fs |-> (dest :> (IF source = dest \/ ~CanRead(fs, source) THEN <<>> ELSE fs[source]))
                 @@ fs]

\* copy_file: fopen(source, "rb"), then fopen(dest, "wb") (which truncates
\* dest), then the whole content
copy_file(fs, dirs, source, dest) ==
    IF ~CanRead(fs, source) THEN [ret |-> -1, fs |-> fs]
    ELSE IF ~CanWrite(fs, dirs, dest) THEN [ret |-> -1, fs |-> fs]
    ELSE [ret |-> 0, fs |-> (dest :> (IF source = dest THEN <<>> ELSE fs[source])) @@ fs]

\* the name create_version_file files the snapshots under: what follows the
\* last '/' of the path it is given
Basename(filepath) == Skip(filepath, LastSlash(filepath))

\* <cwd>/.vcs/versions/<name>
VersionDir(name) == VERSIONS_DIR \o <<SLASH>> \o name

\* <dir>/v<N>
VersionFile(dir, version) == dir \o <<SLASH, "v">> \o Dec(version)

\* create_version_file: mkdir of the file's version directory (EEXIST is fine),
\* then the copy to vN
create_version_file(fs, dirs, filepath, version) ==
    LET version_dir == VersionDir(Basename(filepath))
        exists == file_exists(fs, dirs, version_dir)
    IN  IF ~exists /\ Parent(version_dir) \notin dirs
        THEN [ret |-> -1, fs |-> fs, dirs |-> dirs]
        ELSE LET dirs2 == IF exists THEN dirs ELSE dirs \cup {version_dir}
                 c == copy_file(fs, dirs2, filepath, VersionFile(version_dir, version))
             IN  [ret |-> c.ret, fs |-> c.fs, dirs |-> dirs2]

\* a restore_version_file that passes copy_file its two paths the wrong way
\* round: the working file is written over the snapshot
restore_version_file_swapped(fs, dirs, filename, version) ==
    LET version_file == VersionFile(VersionDir(filename), version)
    IN  IF ~file_exists(fs, dirs, version_file) THEN [ret |-> -1, fs |-> fs]
        ELSE copy_file(fs, dirs, filename, version_file)

\* restore_version_file: the snapshot is looked up under the name as given
restore_version_file(fs, dirs, filename, version) ==
    LET version_file == VersionFile(VersionDir(filename), version)
    IN  IF ~file_exists(fs, dirs, version_file) THEN [ret |-> -1, fs |-> fs]
        ELSE copy_file(fs, dirs, version_file, filename)

\* ------------------------------------------------------------------ engine
\* the record checkin_file fills in: name, hash of the working file, number,
\* time, comment, and the size stat gives (0 when stat fails)
NewVersion(fs, filename, comment, next_version, t, fail) ==
    LET hash == generate_file_hash(fs, filename, t, fail)
    IN  [filename |-> Strncpy(filename, MAX_FILENAME_LEN),
         hash |-> IF hash # {} THEN Strncpy(CHOOSE h \in hash : TRUE, MAX_HASH_LEN)
                  ELSE UNKNOWN_HASH,
         version_number |-> next_version,
         timestamp |-> t,
         comment |-> Strncpy(comment, MAX_COMMENT_LEN),
         file_size |-> IF filename \in DOMAIN fs THEN Len(fs[filename]) ELSE 0]

\* the record goes to the head of the list and the counter goes up
AddVersion(repo, v) ==
    [version_list |-> <<v>> \o repo.version_list, total_versions |-> repo.total_versions + 1]

\* a checkin_file that gives up when the hash cannot be computed
checkin_file_needing_hash(w, filename, comment, t, fail) ==
    LET next_version == get_latest_version(w.repo, filename) + 1
        cv == create_version_file(w.fs, w.dirs, filename, next_version)
        failed == [ret |-> -1, fs |-> cv.fs, dirs |-> cv.dirs, meta |-> w.meta, repo |-> w.repo]
    IN  IF cv.ret # 0 THEN failed
        ELSE IF "malloc" \in fail THEN failed
        ELSE IF generate_file_hash(cv.fs, filename, t, fail) = {} THEN failed
        ELSE LET repo2 == AddVersion(w.repo, NewVersion(cv.fs, filename, comment,
                                                        next_version, t, fail))
             IN  [ret |-> next_version, fs |-> cv.fs, dirs |-> cv.dirs,
                  meta |-> save_metadata(repo2, w.meta, fail), repo |-> repo2]

\* checkin_file: next number, snapshot, record at the head of the list, counter,
\* save (whose result is not looked at); ret is the new version number or -1
checkin_file(w, filename, comment, t, fail) ==
    LET next_version == get_latest_version(w.repo, filename) + 1
        cv == create_version_file(w.fs, w.dirs, filename, next_version)
        failed == [ret |-> -1, fs |-> cv.fs, dirs |-> cv.dirs, meta |-> w.meta, repo |-> w.repo]
    IN  IF cv.ret # 0 THEN failed
        ELSE IF "malloc" \in fail THEN failed
        ELSE LET repo2 == AddVersion(w.repo, NewVersion(cv.fs, filename, comment,
                                                        next_version, t, fail))
             IN  [ret |-> next_version, fs |-> cv.fs, dirs |-> cv.dirs,
                  meta |-> save_metadata(repo2, w.meta, fail), repo |-> repo2]

\* a checkout_file that does not ask the history for the record
checkout_file_without_record(w, filename, version) ==
    restore_version_file(w.fs, w.dirs, filename, version)

\* checkout_file: the record must exist, then the snapshot is copied back
checkout_file(w, filename, version) ==
    IF find_file_version(w.repo, filename, version) = {} THEN [ret |-> -1, fs |-> w.fs]
    ELSE restore_version_file(w.fs, w.dirs, filename, version)

\* the row list_versions prints for a record (the time, which it prints to the
\* minute in local time, is left out)
ListRow(v) ==
    [version_number |-> v.version_number, file_size |-> v.file_size,
     hash |-> SubSeq(v.hash, 1, IF Len(v.hash) < 12 THEN Len(v.hash) ELSE 12),
     comment |-> v.comment]

\* list_versions: one row per record of the file, walking the list from its head
list_versions(repo, filename) ==
    LET mine == SelectSeq(repo.version_list, LAMBDA v : v.filename = filename)
    IN  [ret |-> IF mine = <<>> THEN -1 ELSE 0,
         rows |-> [i \in 1..Len(mine) |-> ListRow(mine[i])]]

\* snprintf(rollback_comment, sizeof(rollback_comment), "Rollback to version %d", version)
RollbackComment(version) == Strncpy(ROLLBACK_PREFIX \o Dec(version), MAX_COMMENT_LEN)

\* a rollback_to_version that leaves out the restore: it checks in the working
\* file as it stands
rollback_without_restore(w, filename, version, t, fail) ==
    LET unchanged == [ret |-> -1, fs |-> w.fs, dirs |-> w.dirs, meta |-> w.meta, repo |-> w.repo]
    IN  IF find_file_version(w.repo, filename, version) = {} THEN unchanged
        ELSE LET c == checkin_file(w, filename, RollbackComment(version), t, fail)
             IN  [c EXCEPT !.ret = IF c.ret > 0 THEN 0 ELSE -1]

\* a rollback_to_version that reports success whatever its check-in returns
rollback_ignoring_checkin(w, filename, version, t, fail) ==
    LET unchanged == [ret |-> -1, fs |-> w.fs, dirs |-> w.dirs, meta |-> w.meta, repo |-> w.repo]
    IN  IF find_file_version(w.repo, filename, version) = {} THEN unchanged
        ELSE LET r == restore_version_file(w.fs, w.dirs, filename, version)
             IN  IF r.ret # 0 THEN [unchanged EXCEPT !.fs = r.fs]
                 ELSE [checkin_file([w EXCEPT !.fs = r.fs], filename,
                                    RollbackComment(version), t, fail) EXCEPT !.ret = 0]

\* rollback_to_version: the record must exist; restore; check in what was restored
rollback_to_version(w, filename, version, t, fail) ==
    LET unchanged == [ret |-> -1, fs |-> w.fs, dirs |-> w.dirs, meta |-> w.meta, repo |-> w.repo]
    IN  IF find_file_version(w.repo, filename, version) = {} THEN unchanged
        ELSE LET r == restore_version_file(w.fs, w.dirs, filename, version)
             IN  IF r.ret # 0 THEN [unchanged EXCEPT !.fs = r.fs]
                 ELSE LET c == checkin_file([w EXCEPT !.fs = r.fs], filename,
                                            RollbackComment(version), t, fail)
                      IN  [c EXCEPT !.ret = IF c.ret > 0 THEN 0 ELSE -1]

\* ---------------------------------------------------------- inputs of a run
FileA == <<"a">>
FileDirA == <<"d", "/", "a">>
FileBar == <<"a", "|", "b">>
FileUntracked == <<"u">>
FileNames == {FileA, FileDirA}
BarNames == {FileBar}

Contents == {<<1>>, <<2>>}

BarComment == <<"c", "|", "c">>
Comments == {BarComment}

\* a comment of two lines, the second of which reads as the record of a file
\* that was never checked in
ForgedRecord ==
    [filename |-> FileUntracked, version_number |-> 1, timestamp |-> 0, file_size |-> 0,
     hash |-> <<"h">>, comment |-> <<"c">>]
NewlineComment == <<"x", NL>> \o SubSeq(RecordLine(ForgedRecord), 1, Len(RecordLine(ForgedRecord)) - 1)

\* lines a versions.meta may hold: a comment, a blank line, a counter, a record
\* as save_metadata writes it, a line that is none of these, a FILE= line cut
\* after the version, and one cut after the name
CompleteLine ==
    RecordLine([filename |-> FileA, version_number |-> 1, timestamp |-> 0, file_size |-> 1,
                hash |-> <<"h">>, comment |-> <<"c">>])
CounterLine == K_TOTAL \o <<"2", NL>>
JunkLine == <<"j", "u", "n", "k", NL>>
VersionOnlyLine == K_FILE \o FileA \o <<BAR>> \o K_VERSION \o <<"2", NL>>
NameOnlyLine == K_FILE \o FileA \o <<NL>>
LinePool == {HEADER_LINE, <<NL>>, CounterLine, CompleteLine, JunkLine, VersionOnlyLine, NameOnlyLine}
MetaTexts == UNION {[1..n -> LinePool] : n \in 0..MaxLines}

\* the version argument as typed on the command line
VersionArgs == {Dec(n) : n \in 1..(MaxCheckins + 1)}

\* what the memory malloc returns may hold: zeroes, or whatever was there
ZeroMemory ==
    [filename |-> <<>>, hash |-> <<>>, version_number |-> 0, timestamp |-> 0,
     comment |-> <<>>, file_size |-> 0]
StaleMemory ==
    [filename |-> <<"z">>, hash |-> <<"z">>, version_number |-> 1, timestamp |-> 3,
     comment |-> <<"z">>, file_size |-> 9]
Memory == {ZeroMemory, StaleMemory}

\* no allocation and no fopen fails
NoFault == {}

\* what a run may meet: nothing, malloc returning NULL for the records
\* load_metadata builds, malloc returning NULL for the record checkin_file
\* builds, fopen(versions.meta, "w") returning NULL in save_metadata
FaultSets == {NoFault, {"malloc_load"}, {"malloc"}, {"meta_open"}}

\* what a run may meet: nothing, or fopen(filepath, "rb") returning NULL in
\* generate_file_hash
HashFaults == {NoFault, {"hash_open"}}

\* the times of day the commands are given at: the first seconds, and the same
\* seconds HASH_TIME_MOD later
ClockTimes == (0..MaxTime) \cup {HASH_TIME_MOD}

\* ------------------------------------------------------------------- state
VARIABLES
    fs,     \* the regular files: path |-> content (working files and snapshots)
    dirs,   \* the directories that exist
    meta,   \* .vcs/versions.meta: the set holding its lines, empty when absent
    now,    \* time(NULL)
    proc,   \* the run of main that has just returned: its command, what it
            \* loaded, what it held at exit, its exit code
    log     \* the check-ins that reported success, oldest first

vars == <<fs, dirs, meta, now, proc, log>>

\* stat(".vcs") == 0 && S_ISDIR
repository_exists == VCS_DIR \in dirs

NoRun ==
    [cmd |-> "none", file |-> <<>>, version |-> 0, comment |-> <<>>, called |-> FALSE,
     ret |-> 0, exit |-> 0, loaded |-> EmptyRepo, repo |-> EmptyRepo, rows |-> <<>>,
     fail |-> {}]

\* no run of main is under way: the last one has been reaped
Idle == proc = NoRun

Init ==
    /\ fs = <<>>
    /\ dirs = {<<"d">>}
    /\ meta = {}
    /\ now = 0
    /\ proc = NoRun
    /\ log = <<>>

\* the user writes a working file
EditFile(f, c) ==
    /\ Idle
    /\ CanWrite(fs, dirs, f)
    /\ ~(f \in DOMAIN fs /\ fs[f] = c)
    /\ fs' = (f :> c) @@ fs
    /\ UNCHANGED <<dirs, meta, now, proc, log>>

\* a second passes
Tick ==
    /\ Idle
    /\ now < MaxTime
    /\ now' = now + 1
    /\ UNCHANGED <<fs, dirs, meta, proc, log>>

\* time passes until t
Wait(t) ==
    /\ Idle
    /\ t > now
    /\ now' = t
    /\ UNCHANGED <<fs, dirs, meta, proc, log>>

\* the caller has taken the exit code; the next command can be given
ProcessExit ==
    /\ ~Idle
    /\ proc' = NoRun
    /\ UNCHANGED <<fs, dirs, meta, now, log>>

\* main with no command: help, exit 1
CmdNone ==
    /\ Idle
    /\ proc' = [NoRun EXCEPT !.cmd = "help", !.exit = 1]
    /\ UNCHANGED <<fs, dirs, meta, now, log>>

\* an init_repository that leaves out the versions subdirectory
init_repository_without_versions ==
    /\ dirs' = dirs \cup {VCS_DIR, TEMP_DIR}
    /\ meta' = {<<HEADER_LINE, K_TOTAL \o Dec(0) \o <<NL>> >>}

\* init_repository: .vcs, .vcs/versions, .vcs/temp and the first versions.meta
init_repository ==
    /\ dirs' = dirs \cup {VCS_DIR, VERSIONS_DIR, TEMP_DIR}
    /\ meta' = {<<HEADER_LINE, K_TOTAL \o Dec(0) \o <<NL>> >>}

\* main, "init"
CmdInit ==
    /\ Idle
    /\ IF repository_exists
       THEN /\ proc' = [NoRun EXCEPT !.cmd = "init", !.exit = 1]
            /\ UNCHANGED <<dirs, meta>>
       ELSE /\ init_repository
            /\ proc' = [NoRun EXCEPT !.cmd = "init", !.called = TRUE, !.exit = 0]
    /\ UNCHANGED <<fs, now, log>>

\* main, any other command where there is no .vcs: exit 1
CmdNoRepository ==
    /\ Idle
    /\ ~repository_exists
    /\ proc' = [NoRun EXCEPT !.cmd = "norepo", !.exit = 1]
    /\ UNCHANGED <<fs, dirs, meta, now, log>>

\* main is started with a command other than init and finds the repository
MainOpens == Idle /\ repository_exists

\* repo = load_repository(current_dir): what a run of main that meets the
\* faults of fail may hold after it
OpenedUnder(fail) == UNION {load_repository(meta, g, fail) : g \in Memory}

\* the same where nothing fails
Opened == OpenedUnder(NoFault)

\* main, an unknown command or a command without its arguments: the repository
\* is loaded, the usage is printed, exit 1
CmdUsage(repo, fail) ==
    /\ proc' = [NoRun EXCEPT !.cmd = "usage", !.exit = 1, !.loaded = repo, !.repo = repo,
                             !.fail = fail]
    /\ UNCHANGED <<fs, dirs, meta, now, log>>

\* main, "checkin <file> [comment]"; comment is the set holding argv[3]
CmdCheckin(f, arg, repo, fail) ==
    /\ Len(log) < MaxCheckins
    /\ LET comment == IF arg # {} THEN CHOOSE a \in arg : TRUE ELSE DEFAULT_COMMENT
           run == [NoRun EXCEPT !.cmd = "checkin", !.file = f, !.comment = comment,
                                !.loaded = repo, !.repo = repo, !.fail = fail]
       IN  IF ~file_exists(fs, dirs, f)
           THEN /\ proc' = [run EXCEPT !.exit = 1]
                /\ UNCHANGED <<fs, dirs, meta, log>>
           ELSE LET c == checkin_file([fs |-> fs, dirs |-> dirs, meta |-> meta, repo |-> repo],
                                      f, comment, now, fail)
                IN  /\ proc' = [run EXCEPT !.called = TRUE, !.ret = c.ret, !.exit = 0,
                                           !.version = c.ret, !.repo = c.repo]
                    /\ fs' = c.fs
                    /\ dirs' = c.dirs
                    /\ meta' = c.meta
                    /\ log' = IF c.ret > 0
                              THEN Append(log, [filename |-> f, version |-> c.ret,
                                                content |-> fs[f],
                                                record |-> Head(c.repo.version_list)])
                              ELSE log
    /\ UNCHANGED now

\* main, "checkout <file> [version]"; arg is the set holding argv[3], and
\* without it the latest version is taken
CmdCheckout(f, arg, repo, fail) ==
    /\ LET version == IF arg # {} THEN Atoi(CHOOSE a \in arg : TRUE)
                      ELSE get_latest_version(repo, f)
           c == checkout_file([fs |-> fs, dirs |-> dirs, meta |-> meta, repo |-> repo],
                              f, version)
       IN  /\ proc' = [NoRun EXCEPT !.cmd = "checkout", !.file = f, !.version = version,
                                    !.called = TRUE, !.ret = c.ret, !.exit = 0,
                                    !.loaded = repo, !.repo = repo, !.fail = fail]
           /\ fs' = c.fs
    /\ UNCHANGED <<dirs, meta, now, log>>

\* main, "list <file>"
CmdList(f, repo, fail) ==
    /\ LET l == list_versions(repo, f)
       IN  proc' = [NoRun EXCEPT !.cmd = "list", !.file = f, !.called = TRUE, !.ret = l.ret,
                                 !.exit = 0, !.loaded = repo, !.repo = repo, !.rows = l.rows,
                                 !.fail = fail]
    /\ UNCHANGED <<fs, dirs, meta, now, log>>

\* main, "rollback <file> <version>"
CmdRollback(f, arg, repo, fail) ==
    /\ Len(log) < MaxCheckins
    /\ LET version == Atoi(arg)
           c == rollback_to_version([fs |-> fs, dirs |-> dirs, meta |-> meta, repo |-> repo],
                                    f, version, now, fail)
       IN  /\ proc' = [NoRun EXCEPT !.cmd = "rollback", !.file = f, !.version = version,
                                    !.comment = RollbackComment(version),
                                    !.called = TRUE, !.ret = c.ret, !.exit = 0,
                                    !.loaded = repo, !.repo = c.repo, !.fail = fail]
           /\ fs' = c.fs
           /\ dirs' = c.dirs
           /\ meta' = c.meta
           /\ log' = IF c.ret = 0
                     THEN Append(log, [filename |-> f,
                                       version |-> Head(c.repo.version_list).version_number,
                                       content |-> c.fs[f],
                                       record |-> Head(c.repo.version_list)])
                     ELSE log
    /\ UNCHANGED now

\* main, "checkin <file>", killed in save_metadata before the last line of the
\* file is written: the snapshot is made, the file holds the first k lines of
\* the text, nothing is reported (the caller sees 128 + SIGKILL).  The kill
\* strikes a repository whose file is whole (its counter counts its records),
\* which keeps the kills of a behaviour finite.
CmdCheckinKilled(f, repo) ==
    /\ file_exists(fs, dirs, f)
    /\ repo.total_versions = Len(repo.version_list)
    /\ LET next_version == get_latest_version(repo, f) + 1
           cv == create_version_file(fs, dirs, f, next_version)
           repo2 == AddVersion(repo, NewVersion(cv.fs, f, DEFAULT_COMMENT, next_version,
                                                now, NoFault))
       IN  /\ next_version <= MaxCheckins
           /\ cv.ret = 0
           /\ fs' = cv.fs
           /\ dirs' = cv.dirs
           /\ \E k \in 0..(Len(MetadataText(repo2)) - 1) :
                 meta' = save_metadata_killed(repo2, meta, k)
           /\ proc' = [NoRun EXCEPT !.cmd = "killed", !.file = f, !.comment = DEFAULT_COMMENT,
                                    !.called = TRUE, !.version = next_version, !.exit = 137,
                                    !.loaded = repo, !.repo = repo2]
    /\ UNCHANGED <<now, log>>

\* the argument a command may come with or without
Optional(S) == {{x} : x \in S} \cup {{}}

\* main runs one command, on a file of names, and returns; faults holds the
\* sets of faults a run may meet
Command(names, comments, faults) ==
    \/ CmdNone
    \/ CmdInit
    \/ CmdNoRepository
    \/ (MainOpens /\ \E fail \in faults : \E repo \in OpenedUnder(fail) : CmdUsage(repo, fail))
    \/ (MainOpens /\ \E fail \in faults : \E repo \in OpenedUnder(fail) :
           \E f \in names, arg \in Optional(comments) : CmdCheckin(f, arg, repo, fail))
    \/ (MainOpens /\ \E fail \in faults : \E repo \in OpenedUnder(fail) :
           \E f \in names, arg \in Optional(VersionArgs) : CmdCheckout(f, arg, repo, fail))
    \/ (MainOpens /\ \E fail \in faults : \E repo \in OpenedUnder(fail) :
           \E f \in names : CmdList(f, repo, fail))
    \/ (MainOpens /\ \E fail \in faults : \E repo \in OpenedUnder(fail) :
           \E f \in names, arg \in VersionArgs : CmdRollback(f, arg, repo, fail))

\* the runs over the plain file names, all within one second and with the
\* default comment
Next ==
    \/ \E f \in FileNames, c \in Contents : EditFile(f, c)
    \/ ProcessExit
    \/ Command(FileNames, {}, {NoFault})

Spec == Init /\ [][Next]_vars

\* the runs over the file name that holds the field delimiter of versions.meta,
\* with and without a comment, as time passes
NextBar ==
    \/ \E f \in BarNames, c \in Contents : EditFile(f, c)
    \/ Tick
    \/ ProcessExit
    \/ Command(BarNames, Comments, {NoFault})

SpecBar == Init /\ [][NextBar]_vars

\* the runs over one file name in which an allocation or the opening of
\* versions.meta for writing may fail
NextFault ==
    \/ \E c \in Contents : EditFile(FileA, c)
    \/ ProcessExit
    \/ Command({FileA}, {}, FaultSets)

SpecFault == Init /\ [][NextFault]_vars

\* the check-ins of one file, given at any of the times of day, in which the
\* hash of the working file may fail to be computed
NextHash ==
    \/ \E c \in Contents : EditFile(FileA, c)
    \/ \E t \in ClockTimes : Wait(t)
    \/ ProcessExit
    \/ CmdInit
    \/ (MainOpens /\ \E fail \in HashFaults : \E repo \in OpenedUnder(fail) :
           CmdCheckin(FileA, {}, repo, fail))

SpecHash == Init /\ [][NextHash]_vars

\* the runs over a plain file name and the file name that holds the field
\* delimiter of versions.meta
MixedNames == {FileA, FileBar}

NextMixed ==
    \/ \E f \in MixedNames, c \in Contents : EditFile(f, c)
    \/ ProcessExit
    \/ Command(MixedNames, {}, {NoFault})

SpecMixed == Init /\ [][NextMixed]_vars

\* the runs over one file name whose check-ins come without a comment or with
\* the comment of two lines
NextNewline ==
    \/ \E c \in Contents : EditFile(FileA, c)
    \/ ProcessExit
    \/ Command({FileA}, {NewlineComment}, {NoFault})

SpecNewline == Init /\ [][NextNewline]_vars

\* two runs of "checkin" at once on one repository.  Each process is at a place
\* of main and checkin_file: before load_repository (start), after it (loaded),
\* after create_version_file (copied), after save_metadata (done); what it
\* reads and writes of the store, it reads and writes at that step.
Procs == {"p", "q"}

TwoStart == [pc |-> "start", copied |-> <<>>] @@ NoRun

InitTwo ==
    /\ fs = (FileA :> <<1>>)
    /\ dirs = {<<"d">>, VCS_DIR, VERSIONS_DIR, TEMP_DIR}
    /\ meta = {<<HEADER_LINE, K_TOTAL \o Dec(0) \o <<NL>> >>}
    /\ now = 0
    /\ proc = [p \in Procs |-> TwoStart]
    /\ log = <<>>

\* the user writes a working file while the processes run
TwoEdit(f, c) ==
    /\ CanWrite(fs, dirs, f)
    /\ ~(f \in DOMAIN fs /\ fs[f] = c)
    /\ fs' = (f :> c) @@ fs
    /\ UNCHANGED <<dirs, meta, now, proc, log>>

\* main up to the call of checkin_file: load_repository, then file_exists(argv[2])
TwoLoad(p, f) ==
    /\ proc[p].pc = "start"
    /\ repository_exists
    /\ \E repo \in Opened :
          proc' = [proc EXCEPT ![p] =
                      IF file_exists(fs, dirs, f)
                      THEN [@ EXCEPT !.pc = "loaded", !.cmd = "checkin", !.file = f,
                                     !.comment = DEFAULT_COMMENT, !.loaded = repo, !.repo = repo]
                      ELSE [@ EXCEPT !.pc = "done", !.cmd = "checkin", !.file = f, !.exit = 1,
                                     !.loaded = repo, !.repo = repo]]
    /\ UNCHANGED <<fs, dirs, meta, now, log>>

\* checkin_file up to the snapshot: get_latest_version, create_version_file
TwoSnapshot(p) ==
    /\ proc[p].pc = "loaded"
    /\ LET next_version == get_latest_version(proc[p].repo, proc[p].file) + 1
           cv == create_version_file(fs, dirs, proc[p].file, next_version)
       IN  /\ fs' = cv.fs
           /\ dirs' = cv.dirs
           /\ proc' = [proc EXCEPT ![p] =
                          IF cv.ret # 0
                          THEN [@ EXCEPT !.pc = "done", !.called = TRUE, !.ret = -1]
                          ELSE [@ EXCEPT !.pc = "copied", !.version = next_version,
                                         !.copied = fs[proc[p].file]]]
           /\ log' = IF cv.ret # 0 THEN log ELSE Append(log, [event |-> "copy", proc |-> p])
    /\ UNCHANGED <<meta, now>>

\* the rest of checkin_file: the record, the list, save_metadata; main returns
TwoSave(p) ==
    /\ proc[p].pc = "copied"
    /\ LET repo2 == AddVersion(proc[p].repo,
                               NewVersion(fs, proc[p].file, proc[p].comment,
                                          proc[p].version, now, NoFault))
       IN  /\ meta' = save_metadata(repo2, meta, NoFault)
           /\ proc' = [proc EXCEPT ![p] =
                          [@ EXCEPT !.pc = "done", !.called = TRUE, !.ret = proc[p].version,
                                    !.repo = repo2]]
    /\ log' = Append(log, [event |-> "save", proc |-> p])
    /\ UNCHANGED <<fs, dirs, now>>

NextTwo ==
    \/ \E f \in FileNames, c \in Contents : TwoEdit(f, c)
    \/ \E p \in Procs, f \in FileNames : TwoLoad(p, f)
    \/ \E p \in Procs : TwoSnapshot(p)
    \/ \E p \in Procs : TwoSave(p)

SpecTwo == InitTwo /\ [][NextTwo]_vars

\* the runs over one file name in which a check-in may be killed while it saves
NextKill ==
    \/ \E c \in Contents : EditFile(FileA, c)
    \/ ProcessExit
    \/ Command({FileA}, {}, {NoFault})
    \/ (MainOpens /\ \E repo \in Opened : CmdCheckinKilled(FileA, repo))

SpecKill == Init /\ [][NextKill]_vars

\* the runs that open a repository whose versions.meta holds any lines: the
\* directories are those init leaves, the file is absent or holds a text
InitLoad ==
    /\ fs = <<>>
    /\ dirs = {<<"d">>, VCS_DIR, VERSIONS_DIR, TEMP_DIR}
    /\ meta \in {{}} \cup {{text} : text \in MetaTexts}
    /\ now = 0
    /\ proc = NoRun
    /\ log = <<>>

NextLoad ==
    \/ ProcessExit
    \/ (MainOpens /\ \E repo \in Opened : CmdUsage(repo, NoFault))
    \/ (MainOpens /\ \E repo \in Opened : \E f \in FileNames : CmdList(f, repo, NoFault))

SpecLoad == InitLoad /\ [][NextLoad]_vars

\* ------------------------------------------------- vocabulary of the claims
\* the step is a run of main: a command is given and has returned
Ran(name) == proc.cmd = "none" /\ proc'.cmd = name

\* the text holds no '|'
NoBar(text) == \A i \in 1..Len(text) : text[i] # BAR

\* where the snapshot of version n of file f is looked up
SnapshotPath(f, n) == VersionFile(VersionDir(f), n)

\* the path lies in the snapshot store
IsSnapshot(path) == HasPrefix(path, VERSIONS_DIR \o <<SLASH>>)

\* the history holds a record of version n of file f
HasRecord(repo, f, n) ==
    \E i \in 1..Len(repo.version_list) :
        repo.version_list[i].filename = f /\ repo.version_list[i].version_number = n

\* the greatest version number the history holds for f, 0 when it holds none
MaxVersion(repo, f) ==
    LET ns == {repo.version_list[i].version_number : i \in
                  {k \in 1..Len(repo.version_list) : repo.version_list[k].filename = f}}
    IN  IF ns = {} THEN 0 ELSE CHOOSE n \in ns : \A m \in ns : m <= n

\* the last run was a check-in or a rollback that reported success
CheckedIn ==
    \/ proc.cmd = "checkin" /\ proc.called /\ proc.ret > 0
    \/ proc.cmd = "rollback" /\ proc.ret = 0

\* the last run has opened the repository and has left versions.meta alone
HasLoaded == proc.cmd \in {"usage", "checkout", "list"}

\* the lines of versions.meta, none when the file is absent
MetaLines == IF meta = {} THEN <<>> ELSE CHOOSE text \in meta : TRUE

\* the tokens of a FILE= line after its key
FieldTokens(line) == Strtok(Skip(line, Len(K_FILE)))

\* the i-th token of the line carries the key
HasField(line, i, key) == Len(FieldTokens(line)) >= i /\ HasPrefix(FieldTokens(line)[i], key)

\* the line starts with FILE=
IsFileLine(line) == HasPrefix(line, K_FILE)

\* the line is a record as save_metadata writes one: FILE= and the five
\* further fields, each under its key
IsCompleteRecord(line) ==
    /\ IsFileLine(line)
    /\ HasField(line, 2, K_VERSION)
    /\ HasField(line, 3, K_TIMESTAMP)
    /\ HasField(line, 4, K_SIZE)
    /\ HasField(line, 5, K_HASH)
    /\ HasField(line, 6, K_COMMENT)

\* the step is a run of main that opens the repository
RanLoaded ==
    proc.cmd = "none" /\ proc'.cmd \in {"usage", "checkin", "checkout", "list", "rollback"}

\* how often the history holds the record
Count(repo, v) == Cardinality({i \in 1..Len(repo.version_list) : repo.version_list[i] = v})

\* the two histories hold the same records, each as often, in whatever order
SameRecords(r1, r2) ==
    /\ Len(r1.version_list) = Len(r2.version_list)
    /\ \A i \in 1..Len(r1.version_list) :
          Count(r1, r1.version_list[i]) = Count(r2, r1.version_list[i])

\* both processes have checked in the same file from the same loaded history,
\* both with success, and q was the last to save
BothCheckedIn(p, q) ==
    /\ p # q
    /\ proc[p].pc = "done" /\ proc[p].ret > 0
    /\ proc[q].pc = "done" /\ proc[q].ret > 0
    /\ proc[p].file = proc[q].file
    /\ proc[p].loaded = proc[q].loaded
    /\ log[Len(log)] = [event |-> "save", proc |-> q]

\* the process whose create_version_file came last
LastCopier ==
    log[CHOOSE i \in 1..Len(log) :
            /\ log[i].event = "copy"
            /\ \A j \in (i + 1)..Len(log) : log[j].event # "copy"].proc

\* the FILE= lines a versions.meta holds
NumFileLines(m) == IF m = {} THEN 0 ELSE Len(SelectSeq(CHOOSE text \in m : TRUE, IsFileLine))

\* the lines a versions.meta holds
NumLines(m) == IF m = {} THEN 0 ELSE Len(CHOOSE text \in m : TRUE)

\* the hash was computed (it is not the word checkin_file puts in its place)
Computed(hash) == hash # UNKNOWN_HASH

\* the successful check-ins i and j are two, of the same content
SameContent(i, j) == i # j /\ log[i].content = log[j].content

\* the file names of the runs
AllNames == FileNames \cup BarNames \cup {FileUntracked}

\* the records the history holds for f, from the head on
RecordsOf(repo, f) == SelectSeq(repo.version_list, LAMBDA v : v.filename = f)

\* the same as a set
RecordSetOf(repo, f) == {RecordsOf(repo, f)[i] : i \in 1..Len(RecordsOf(repo, f))}

\* where check-in stores the snapshot of version n of file f
StoragePath(f, n) == VersionFile(VersionDir(Basename(f)), n)

\* every record of the history has its snapshot file where check-in stores it
AllStored(repo) ==
    \A i \in 1..Len(repo.version_list) :
        StoragePath(repo.version_list[i].filename, repo.version_list[i].version_number)
            \in DOMAIN fs

\* ------------------------------------------------------------------ claims

\* C1: the k-th successful check-in of a file (rollback's check-in included)
\* returns version k, and no two records of the history share a file name and
\* a version number.
C1_NumbersAreSequential ==
    /\ \A i \in 1..Len(log) :
          log[i].version = Cardinality({j \in 1..i : log[j].filename = log[i].filename})
    /\ \A i, j \in 1..Len(proc.repo.version_list) :
          (/\ i # j
           /\ proc.repo.version_list[i].filename = proc.repo.version_list[j].filename)
          => proc.repo.version_list[i].version_number # proc.repo.version_list[j].version_number

\* C2: a check-out of (f, N), N a number some check-in of f returned, leaves the
\* working file with the content f had at that check-in.
C2_CheckoutRestoresCheckedInContent ==
    proc.cmd = "checkout" =>
        \A i \in 1..Len(log) :
            (log[i].filename = proc.file /\ log[i].version = proc.version)
            => (proc.file \in DOMAIN fs /\ fs[proc.file] = log[i].content)

C4_SaveLoadRoundTrip ==
    (/\ CheckedIn
     /\ \A i \in 1..Len(proc.repo.version_list) : NoBar(proc.repo.version_list[i].comment))
    => \A repo \in Opened : repo = proc.repo

\* C5: once a check-in of f has returned n, every later run finds in the history
\* it loads a record (f, n) with the time, size, hash and comment of that
\* check-in (comment without '|').
C5_HistoryIsDurable ==
    \A i \in 1..Len(log) :
        NoBar(log[i].record.comment) =>
            \A repo \in Opened :
                \E k \in 1..Len(repo.version_list) : repo.version_list[k] = log[i].record

\* C6: a check-in of a file that is not in the working directory fails: main
\* exits non-zero, the engine's checkin_file returns -1, and neither the history
\* nor the counter nor versions.meta changes.
C6_CheckinOfMissingFileFails ==
    [][(Ran("checkin") /\ ~file_exists(fs, dirs, proc'.file)) =>
          LET c == checkin_file([fs |-> fs, dirs |-> dirs, meta |-> meta, repo |-> proc'.loaded],
                                proc'.file, proc'.comment, now, NoFault)
          IN  /\ proc'.exit # 0
              /\ proc'.repo = proc'.loaded
              /\ meta' = meta
              /\ c.ret = -1
              /\ c.repo = proc'.loaded
              /\ c.meta = meta
    ]_vars

\* C6 witness: main has refused to check in a file that does not exist
C6_Witness ==
    /\ proc.cmd = "checkin"
    /\ ~file_exists(fs, dirs, proc.file)
    /\ proc.exit = 1

\* C7: main exits 0 when the command succeeded and 1 on a usage error, on a
\* missing repository and when the check-in, check-out or rollback failed.
C7_ExitCodeTellsSuccess ==
    /\ proc.exit \in {0, 1}
    /\ proc.cmd \in {"help", "usage", "norepo"} => proc.exit = 1
    /\ proc.cmd = "init" => (proc.exit = 0 <=> proc.called)
    /\ proc.cmd = "checkin" => (proc.exit = 0 <=> (proc.called /\ proc.ret > 0))
    /\ proc.cmd \in {"checkout", "rollback"} => (proc.exit = 0 <=> proc.ret = 0)

\* C8: a check-out or a list, failed or not, leaves the history, the counter,
\* versions.meta and every snapshot as they were.
C8_CheckoutAndListAreReadOnly ==
    [][(Ran("checkout") \/ Ran("list")) =>
          /\ proc'.repo = proc'.loaded
          /\ meta' = meta
          /\ dirs' = dirs
          /\ \A p \in DOMAIN fs : IsSnapshot(p) => (p \in DOMAIN fs' /\ fs'[p] = fs[p])
          /\ \A p \in DOMAIN fs' : IsSnapshot(p) => p \in DOMAIN fs
    ]_vars

\* C8 witness: a check-out has succeeded
C8_Witness ==
    /\ proc.cmd = "checkout"
    /\ proc.ret = 0

\* C9: a check-out of (f, N) fails when the history has no record (f, N), snapshot
\* or not, and when the snapshot file is absent; the working files stay as they were.
C9_CheckoutFailsWithoutRecordOrSnapshot ==
    [][(/\ Ran("checkout")
        /\ \/ ~HasRecord(proc'.loaded, proc'.file, proc'.version)
           \/ SnapshotPath(proc'.file, proc'.version) \notin DOMAIN fs)
       => (proc'.ret = -1 /\ fs' = fs)
    ]_vars

\* C9 witness: a check-out has failed for want of a record although a snapshot
\* file of that name and number is in the store
C9_Witness ==
    /\ proc.cmd = "checkout"
    /\ proc.ret = -1
    /\ ~HasRecord(proc.loaded, proc.file, proc.version)
    /\ SnapshotPath(proc.file, proc.version) \in DOMAIN fs

\* C10: list prints the records of the file newest first.
C10_ListIsNewestFirst ==
    proc.cmd = "list" =>
        \A i, j \in 1..Len(proc.rows) :
            i < j => proc.rows[i].version_number > proc.rows[j].version_number

\* C11: in every history a run holds or loads, get_latest_version(f) is the
\* greatest version number among the records of f and 0 when f has none, and
\* find_file_version(f, n) yields a record, of that name and number and of the
\* history, exactly when the history holds one, and none otherwise (n ranges
\* over numbers below 1 and above the latest, f over a file without records).
C11_LatestAndFindAgreeWithHistory ==
    \A repo \in Opened \cup {proc.repo} :
        \A f \in FileNames \cup BarNames \cup {FileUntracked} :
            /\ get_latest_version(repo, f) = MaxVersion(repo, f)
            /\ \A n \in (-1)..(MaxCheckins + 2) :
                  LET found == find_file_version(repo, f, n)
                  IN  /\ (found # {}) <=> HasRecord(repo, f, n)
                      /\ \A v \in found :
                            /\ v.filename = f
                            /\ v.version_number = n
                            /\ \E i \in 1..Len(repo.version_list) : repo.version_list[i] = v

\* C11 witness: a history was loaded whose head is not the latest version of
\* its file
C11_Witness ==
    /\ proc.cmd = "list"
    /\ Len(proc.loaded.version_list) >= 2
    /\ Head(proc.loaded.version_list).version_number
          < MaxVersion(proc.loaded, Head(proc.loaded.version_list).filename)

\* C12: init where there is no .vcs succeeds and leaves .vcs, .vcs/versions,
\* .vcs/temp and a versions.meta that loads as the empty history with counter
\* 0; init where .vcs exists exits non-zero and leaves versions.meta, the
\* directories, the snapshots and the working files as they were.
C12_InitCreatesOrRefuses ==
    [][Ran("init") =>
          IF ~repository_exists
          THEN /\ proc'.exit = 0
               /\ {VCS_DIR, VERSIONS_DIR, TEMP_DIR} \subseteq dirs'
               /\ meta' # {}
               /\ Opened' = {EmptyRepo}
          ELSE /\ proc'.exit # 0
               /\ meta' = meta
               /\ dirs' = dirs
               /\ fs' = fs
    ]_vars

\* C12 witness: init was refused in a repository that has a history
C12_Witness ==
    /\ proc.cmd = "init"
    /\ proc.exit = 1
    /\ \E repo \in Opened : repo.version_list # <<>>

\* C13: the load never fails over versions.meta: an absent file gives the empty
\* history, and the history loaded holds one record for every complete FILE=
\* record of the file, in the reverse of the file's order, and no record for any
\* other line.
C13_LoadSkipsMalformedLines ==
    /\ Opened # {}
    /\ meta = {} => Opened = {EmptyRepo}
    /\ HasLoaded =>
          LET complete == SelectSeq(MetaLines, IsCompleteRecord)
              n == Len(complete)
          IN  /\ Len(proc.loaded.version_list) = n
              /\ \A k \in 1..n :
                    proc.loaded.version_list[n + 1 - k] = ParseRecord(complete[k], ZeroMemory)

\* C13 as the code has it: the load never fails over versions.meta; an absent
\* file gives the empty history; every line that starts with FILE=, complete or
\* not, adds one record, whose name is the line's first token and which is the
\* written record when the line is complete; every other line adds none, and no
\* line keeps the lines after it from being loaded.
C13_LoadKeepsEveryFileLine ==
    /\ Opened # {}
    /\ meta = {} => Opened = {EmptyRepo}
    /\ HasLoaded =>
          LET lines == SelectSeq(MetaLines, IsFileLine)
              n == Len(lines)
          IN  /\ Len(proc.loaded.version_list) = n
              /\ \A k \in 1..n :
                    LET v == proc.loaded.version_list[n + 1 - k]
                    IN  /\ FieldTokens(lines[k]) # <<>>
                            => v.filename = Strncpy(FieldTokens(lines[k])[1], MAX_FILENAME_LEN)
                        /\ IsCompleteRecord(lines[k]) => v = ParseRecord(lines[k], ZeroMemory)

\* C13 witness: a file with a line that is no record ahead of a FILE= line was
\* loaded, and the history holds a record
C13_Witness ==
    /\ HasLoaded
    /\ proc.loaded.version_list # <<>>
    /\ \E i, j \in 1..Len(MetaLines) :
          i < j /\ MetaLines[i] = JunkLine /\ IsFileLine(MetaLines[j])

\* C17: in the record loaded from a FILE= line, a field whose token is missing
\* or does not carry its key is 0 (version, time, size) or the empty string
\* (hash, comment).
C17_MissingFieldTakesDefault ==
    HasLoaded =>
        LET lines == SelectSeq(MetaLines, IsFileLine)
            n == Len(lines)
        IN  /\ Len(proc.loaded.version_list) = n
            /\ \A k \in 1..n :
                  LET v == proc.loaded.version_list[n + 1 - k]
                  IN  /\ ~HasField(lines[k], 2, K_VERSION) => v.version_number = 0
                      /\ ~HasField(lines[k], 3, K_TIMESTAMP) => v.timestamp = 0
                      /\ ~HasField(lines[k], 4, K_SIZE) => v.file_size = 0
                      /\ ~HasField(lines[k], 5, K_HASH) => v.hash = <<>>
                      /\ ~HasField(lines[k], 6, K_COMMENT) => v.comment = <<>>

\* C14: a check-in or a rollback reports success only when versions.meta then
\* holds the history the run ends with (a failed save is reported as a failure).
C14_SuccessMeansSaved ==
    CheckedIn => meta = {MetadataText(proc.repo)}

C20_AllocationFailureIsReported ==
    [][/\ (Ran("checkin") /\ proc'.called /\ "malloc" \in proc'.fail) =>
             (/\ proc'.ret = -1
              /\ proc'.repo = proc'.loaded
              /\ meta' = meta)
       /\ (proc.cmd = "none" /\ proc'.cmd \in {"usage", "checkin", "checkout", "list", "rollback"}) =>
             Len(proc'.loaded.version_list) = Len(SelectSeq(MetaLines, IsFileLine))
    ]_vars

\* C15: a run leaves the history it loaded as it was, or, when it is a check-in
\* or a rollback that reports success, puts exactly one record ahead of it; and
\* the history the next process loads holds the very records the run ended
\* with, every field unchanged.
C15_HistoryIsAppendOnly ==
    /\ [][RanLoaded =>
             \/ proc'.repo = proc'.loaded
             \/ /\ proc'.cmd \in {"checkin", "rollback"}
                /\ proc'.ret >= 0
                /\ proc'.repo.version_list # <<>>
                /\ Tail(proc'.repo.version_list) = proc'.loaded.version_list
                /\ proc'.repo.total_versions = proc'.loaded.total_versions + 1
       ]_vars
    /\ [](proc.cmd \in {"usage", "checkin", "checkout", "list", "rollback"}
            => \A repo \in Opened : SameRecords(repo, proc.repo))

\* C16: when two processes have loaded the same history and both have checked
\* in the same file with success, both were given the same version number,
\* versions.meta holds the history of the one that saved last (the loaded
\* records and one new record, not two), and the one snapshot of that number
\* holds what the process that copied last has copied.
C16_LastSaveWins ==
    \A p, q \in Procs :
        BothCheckedIn(p, q) =>
            /\ proc[p].ret = proc[q].ret
            /\ \A repo \in Opened :
                  /\ SameRecords(repo, proc[q].repo)
                  /\ Len(repo.version_list) = Len(proc[q].loaded.version_list) + 1
            /\ SnapshotPath(Basename(proc[q].file), proc[q].ret) \in DOMAIN fs
            /\ fs[SnapshotPath(Basename(proc[q].file), proc[q].ret)] = proc[LastCopier].copied

\* C16 witness: both processes have checked in the same file as the same
\* version; p copied and saved a content that neither versions.meta nor the
\* snapshot store holds any more
C16_Witness ==
    \E p, q \in Procs :
        /\ BothCheckedIn(p, q)
        /\ proc[p].ret = proc[q].ret
        /\ LastCopier = q
        /\ proc[p].copied # proc[q].copied
        /\ fs[SnapshotPath(Basename(proc[q].file), proc[q].ret)] = proc[q].copied
        /\ \A repo \in Opened : Len(repo.version_list) = 1

C21_SameContentHashesDiffer ==
    \A i, j \in 1..Len(log) :
        SameContent(i, j) => log[i].record.hash # log[j].record.hash

\* C21 as the code has it: the hash is the djb2 value of the content and its
\* length in hexadecimal, followed by the time modulo HASH_TIME_MOD; two
\* check-ins of the same content record different hashes exactly when their
\* times differ modulo HASH_TIME_MOD, or when one hash was computed and the
\* other was not.
C21_HashesDifferWithTimeOfDay ==
    /\ \A i \in 1..Len(log) :
          Computed(log[i].record.hash) =>
              log[i].record.hash =
                  PadZero(HexNat(Djb2(log[i].content, HASH_SEED) * 33 + Len(log[i].content)), 8)
                    \o Dec(log[i].record.timestamp % HASH_TIME_MOD)
    /\ \A i, j \in 1..Len(log) :
          SameContent(i, j) =>
              (log[i].record.hash # log[j].record.hash
                 <=> \/ Computed(log[i].record.hash) # Computed(log[j].record.hash)
                     \/ /\ Computed(log[i].record.hash)
                        /\ Computed(log[j].record.hash)
                        /\ log[i].record.timestamp % HASH_TIME_MOD
                              # log[j].record.timestamp % HASH_TIME_MOD)

\* C21 witness: two check-ins of the same content at different times have
\* recorded the same computed hash
C21_Witness ==
    \E i, j \in 1..Len(log) :
        /\ SameContent(i, j)
        /\ log[i].record.timestamp # log[j].record.timestamp
        /\ Computed(log[i].record.hash)
        /\ log[i].record.hash = log[j].record.hash

\* C22: a check-in whose snapshot was stored and whose hash cannot be computed
\* succeeds: it returns the next version number, main exits 0, the record at the
\* head of the history carries the hash "unknown", the counter is one up, and
\* versions.meta holds the new history.
C22_HashFailureDoesNotAbort ==
    [][(/\ Ran("checkin")
        /\ proc'.called
        /\ "hash_open" \in proc'.fail
        /\ create_version_file(fs, dirs, proc'.file,
                               MaxVersion(proc'.loaded, proc'.file) + 1).ret = 0)
       => /\ proc'.ret = MaxVersion(proc'.loaded, proc'.file) + 1
          /\ proc'.exit = 0
          /\ proc'.repo.version_list # <<>>
          /\ Head(proc'.repo.version_list).hash = UNKNOWN_HASH
          /\ Head(proc'.repo.version_list).filename = proc'.file
          /\ Head(proc'.repo.version_list).version_number = proc'.ret
          /\ Tail(proc'.repo.version_list) = proc'.loaded.version_list
          /\ proc'.repo.total_versions = proc'.loaded.total_versions + 1
          /\ meta' = {MetadataText(proc'.repo)}
    ]_vars

\* C22 witness: a check-in without a hash has succeeded on top of a history that
\* holds a computed hash
C22_Witness ==
    /\ proc.cmd = "checkin"
    /\ "hash_open" \in proc.fail
    /\ proc.ret > 1
    /\ Head(proc.repo.version_list).hash = UNKNOWN_HASH
    /\ \E i \in 1..Len(proc.loaded.version_list) : Computed(proc.loaded.version_list[i].hash)

\* C23: a successful check-in of f returns latest(f) + 1, latest taken over the
\* records of f in the history the run loaded, whatever the counter says and
\* whatever records other names have; a check-in or a rollback of g leaves the
\* records and the latest version of every other name as they were, in the
\* history the run holds and in the history the next process loads.
C23_NumberingIsPerFile ==
    /\ [][(Ran("checkin") /\ proc'.called /\ proc'.ret > 0)
             => proc'.ret = MaxVersion(proc'.loaded, proc'.file) + 1]_vars
    /\ [][(Ran("checkin") \/ Ran("rollback")) =>
             \A f \in AllNames \ {proc'.file} :
                 /\ RecordsOf(proc'.repo, f) = RecordsOf(proc'.loaded, f)
                 /\ get_latest_version(proc'.repo, f) = get_latest_version(proc'.loaded, f)]_vars
    /\ [](proc.cmd \in {"checkin", "rollback"} =>
             \A repo \in Opened :
                 \A f \in AllNames \ {proc.file} :
                     /\ RecordSetOf(repo, f) = RecordSetOf(proc.loaded, f)
                     /\ get_latest_version(repo, f) = get_latest_version(proc.loaded, f))

\* C24: a check-out of f at its latest version (what main resolves a missing
\* version argument to) succeeds and leaves the working file with the content of
\* the last successful check-in or rollback of f; when the history has no record
\* of f the version is 0, the check-out fails and the files stay as they were.
C24_CheckoutOfLatest ==
    [][(Ran("checkout") /\ proc'.version = get_latest_version(proc'.loaded, proc'.file)) =>
          LET f == proc'.file
              mine == {i \in 1..Len(log) : log[i].filename = f}
          IN  IF RecordsOf(proc'.loaded, f) # <<>>
              THEN /\ mine # {}
                   /\ proc'.ret = 0
                   /\ f \in DOMAIN fs'
                   /\ fs'[f] = log[CHOOSE i \in mine : \A j \in mine : j <= i].content
              ELSE /\ proc'.version = 0
                   /\ proc'.ret = -1
                   /\ fs' = fs
    ]_vars

\* C25: for every file name and version, the path check-in stores the snapshot
\* at is the path check-out and rollback read it from; a check-out of (f, N),
\* the last successful check-in having been that of f and having returned N,
\* succeeds and restores what was checked in.
C25_StoreAndRetrieveAgree ==
    [][(/\ Ran("checkout")
        /\ log # <<>>
        /\ log[Len(log)].filename = proc'.file
        /\ log[Len(log)].version = proc'.version)
       => /\ StoragePath(proc'.file, proc'.version) = SnapshotPath(proc'.file, proc'.version)
          /\ proc'.ret = 0
          /\ fs'[proc'.file] = log[Len(log)].content
    ]_vars

\* C26: the counter equals the number of records, in the history a run loads,
\* in the history it ends with, and in versions.meta (TOTAL_VERSIONS equals the
\* number of FILE= lines, which are the records the next process loads).
C26_CounterCountsRecords ==
    /\ proc.loaded.total_versions = Len(proc.loaded.version_list)
    /\ proc.repo.total_versions = Len(proc.repo.version_list)
    /\ \A repo \in Opened :
          /\ repo.total_versions = NumFileLines(meta)
          /\ repo.total_versions = Len(repo.version_list)

\* C27: check-in stores the snapshot before it adds the record and saves; so in
\* every state, those a killed check-in leaves included, every record of the
\* history a run loaded, of the history it holds, and of the history
\* versions.meta gives the next process, has its snapshot file in the store.
C27_RecordsHaveSnapshots ==
    /\ AllStored(proc.loaded)
    /\ AllStored(proc.repo)
    /\ \A repo \in Opened : AllStored(repo)

\* C28: the records of two different file names never have the same storage
\* path, and a check-in or a rollback of g leaves the stored snapshot of every
\* record of every other name in place with its content.
C28_SnapshotsAreApart ==
    [][(Ran("checkin") \/ Ran("rollback")) =>
          /\ \A i, j \in 1..Len(proc'.repo.version_list) :
                LET v == proc'.repo.version_list[i]
                    w == proc'.repo.version_list[j]
                IN  v.filename # w.filename
                    => StoragePath(v.filename, v.version_number)
                          # StoragePath(w.filename, w.version_number)
          /\ \A i \in 1..Len(proc'.loaded.version_list) :
                LET v == proc'.loaded.version_list[i]
                    path == StoragePath(v.filename, v.version_number)
                IN  (v.filename # proc'.file /\ path \in DOMAIN fs)
                    => (path \in DOMAIN fs' /\ fs'[path] = fs[path])
    ]_vars

====
